---- MODULE Spec2Model ----
(***************************************************************************)
(* Model of the btop-rs configuration store (src/src/config/config.rs):    *)
(* the typed tables built by Config::new, and Config::load with the        *)
(* validators it calls.  Text is modelled with TLA+ strings; Len, Head,    *)
(* Tail, SubSeq and \o act on them character by character.                 *)
(***************************************************************************)
EXTENDS Integers, Sequences, FiniteSets, TLC

VARIABLES
    file,           \* the config file on disk: [exists, lines]
    strings,        \* Config.strings
    strings_tmp,    \* Config.strings_tmp
    bools,          \* Config.bools
    bools_tmp,      \* Config.bools_tmp
    ints,           \* Config.ints
    ints_tmp,       \* Config.ints_tmp
    current_boxes,  \* Config.current_boxes
    preset_list,    \* Config.preset_list
    write_new,      \* Config.write_new (the dirty flag)
    locked,         \* Config.locked
    write_lock,     \* Config.write_lock
    load_warnings,  \* the caller's warning vector handed to load
    pc,             \* position of the call to load
    idx,            \* number of lines the reader has consumed
    result,         \* how load ended: "none", "Ok", "Err" or "panic"
    pre,            \* the store as it was when load was entered
    ret,            \* the last call on the store and what it returned
    quit            \* the calls of clean_quit in progress and the process

vars == <<file, strings, strings_tmp, bools, bools_tmp, ints, ints_tmp,
          current_boxes, preset_list, write_new, locked, write_lock,
          load_warnings, pc, idx, result, pre, ret, quit>>

\* ------------------------------------------------------------------------
\* Bounds of the model
\* ------------------------------------------------------------------------

\* Largest number of assignment lines (after the header) of a file built
\* from ScanPool.
MaxLines == 2

\* ------------------------------------------------------------------------
\* Text primitives
\* ------------------------------------------------------------------------

Range(s) == {s[i] : i \in 1..Len(s)}

WhiteSpace == {" ", "\t"}

RECURSIVE TrimStart(_)
TrimStart(s) ==
    IF s # "" /\ Head(s) \in WhiteSpace THEN TrimStart(Tail(s)) ELSE s

RECURSIVE TrimEnd(_)
TrimEnd(s) ==
    IF s # "" /\ SubSeq(s, Len(s), Len(s)) \in WhiteSpace
    THEN TrimEnd(SubSeq(s, 1, Len(s) - 1))
    ELSE s

\* str::trim
Trim(s) == TrimEnd(TrimStart(s))

\* str::trim_matches(c): every leading and every trailing c is removed
RECURSIVE TrimMatches(_, _)
TrimMatches(s, c) ==
    IF s # "" /\ Head(s) = c THEN TrimMatches(Tail(s), c)
    ELSE IF s # "" /\ SubSeq(s, Len(s), Len(s)) = c
         THEN TrimMatches(SubSeq(s, 1, Len(s) - 1), c)
         ELSE s

\* position of the first occurrence of the character d in s, 0 when absent
IndexOf(s, d) ==
    IF \E i \in 1..Len(s) : SubSeq(s, i, i) = d
    THEN CHOOSE i \in 1..Len(s) :
            /\ SubSeq(s, i, i) = d
            /\ \A j \in 1..(i - 1) : SubSeq(s, j, j) # d
    ELSE 0

\* str::split(d): every piece between delimiters, empty pieces included
RECURSIVE Split(_, _)
Split(s, d) ==
    LET i == IndexOf(s, d) IN
    IF i = 0 THEN <<s>>
    ELSE <<SubSeq(s, 1, i - 1)>> \o Split(SubSeq(s, i + 1, Len(s)), d)

\* str::contains(sub)
Contains(s, sub) ==
    \E i \in 1..(Len(s) - Len(sub) + 1) : SubSeq(s, i, i + Len(sub) - 1) = sub

\* str::starts_with(p)
StartsWith(s, p) == Len(s) >= Len(p) /\ SubSeq(s, 1, Len(p)) = p

UpperLetters == "ABCDEFGHIJKLMNOPQRSTUVWXYZ"
LowerLetters == "abcdefghijklmnopqrstuvwxyz"

\* str::to_lowercase
RECURSIVE ToLowercase(_)
ToLowercase(s) ==
    IF s = "" THEN ""
    ELSE LET i == IndexOf(UpperLetters, Head(s)) IN
         (IF i = 0 THEN Head(s) ELSE SubSeq(LowerLetters, i, i))
            \o ToLowercase(Tail(s))

MaxI32 == 2147483647
MinI32 == -2147483647 - 1

Digits == "0123456789"
DigitVal(c) == IndexOf(Digits, c) - 1

\* the digits of a non-negative literal, accumulated upwards; overflow is
\* detected before the step that would exceed MaxI32
RECURSIVE AccPos(_, _)
AccPos(s, acc) ==
    IF s = "" THEN [ok |-> TRUE, v |-> acc]
    ELSE LET d == DigitVal(Head(s)) IN
         IF d < 0 THEN [ok |-> FALSE, v |-> 0]
         ELSE IF acc > (MaxI32 - d) \div 10 THEN [ok |-> FALSE, v |-> 0]
         ELSE AccPos(Tail(s), acc * 10 + d)

\* the digits of a negative literal, accumulated downwards so that
\* MinI32 itself is representable
RECURSIVE AccNeg(_, _)
AccNeg(s, acc) ==
    IF s = "" THEN [ok |-> TRUE, v |-> acc]
    ELSE LET d == DigitVal(Head(s))
             lim == ((MinI32 + d) \div 10)
                        + (IF (MinI32 + d) % 10 = 0 THEN 0 ELSE 1)
         IN
         IF d < 0 THEN [ok |-> FALSE, v |-> 0]
         ELSE IF acc < lim THEN [ok |-> FALSE, v |-> 0]
         ELSE AccNeg(Tail(s), acc * 10 - d)

\* str::parse::<i32>: an optional sign, then at least one digit, nothing
\* else; a value outside the 32-bit range is an error
ParseI32(s) ==
    IF s = "" THEN [ok |-> FALSE, v |-> 0]
    ELSE IF Head(s) = "-" THEN
            (IF Tail(s) = "" THEN [ok |-> FALSE, v |-> 0]
             ELSE AccNeg(Tail(s), 0))
    ELSE IF Head(s) = "+" THEN
            (IF Tail(s) = "" THEN [ok |-> FALSE, v |-> 0]
             ELSE AccPos(Tail(s), 0))
    ELSE AccPos(s, 0)

\* ------------------------------------------------------------------------
\* util/mod.rs
\* ------------------------------------------------------------------------

RECURSIVE is_in(_, _)
is_in(first, others) ==
    \/ \E i \in 1..Len(others) : others[i] = first
    \/ (others # <<>> /\ is_in(first, Tail(others)))

\* is_bool with the case of the literal ignored
is_bool_anycase(value) == is_in(ToLowercase(value), <<"true", "false">>)

is_bool(value) == is_in(value, <<"true", "false", "True", "False">>)

\* Some(b) is [some |-> TRUE, v |-> b]; None is [some |-> FALSE, ...]
parse_bool(value) ==
    LET low == ToLowercase(Trim(value)) IN
    IF low = "true" THEN [some |-> TRUE, v |-> TRUE]
    ELSE IF low = "false" THEN [some |-> TRUE, v |-> FALSE]
    ELSE [some |-> FALSE, v |-> FALSE]

is_int(value) == ParseI32(value).ok

\* ssplit is imported from the crate root but its definition is not among
\* the sources; it is taken as splitting on the delimiter into tokens,
\* empty tokens dropped.
RECURSIVE DropEmpty(_)
DropEmpty(seq) ==
    IF seq = <<>> THEN <<>>
    ELSE IF Head(seq) = "" THEN DropEmpty(Tail(seq))
         ELSE <<Head(seq)>> \o DropEmpty(Tail(seq))

ssplit(value, delim) == DropEmpty(Split(value, delim))

\* ------------------------------------------------------------------------
\* Config::new
\* ------------------------------------------------------------------------

\* The keys of the schema table, in declaration order.  Only the key of an
\* entry is read by the operations modelled here, so the help text is left
\* out.
descriptions ==
    <<
        "color_theme", "theme_background", "truecolor", "force_tty",
        "presets", "rounded_corners", "graph_symbol", "graph_symbol_cpu",
        "graph_symbol_mem", "graph_symbol_net", "graph_symbol_proc",
        "shown_boxes", "update_ms", "proc_sorting", "proc_reversed",
        "proc_tree", "proc_colors", "proc_gradient", "proc_per_core",
        "proc_mem_bytes", "proc_info_smaps", "proc_left",
        "cpu_graph_upper", "cpu_graph_lower", "cpu_invert_lower",
        "cpu_single_graph", "cpu_bottom", "show_uptime", "check_temp",
        "cpu_sensor", "show_coretemp", "cpu_core_map", "temp_scale",
        "show_cpu_freq", "clock_format", "background_update",
        "custom_cpu_name", "disks_filter", "mem_graphs", "mem_below_net",
        "show_swap", "swap_disk", "show_disks", "only_physical",
        "use_fstab", "show_io_stat", "io_mode", "io_graph_combined",
        "io_graph_speeds", "net_download", "net_upload", "net_auto",
        "net_sync", "net_iface", "show_battery", "log_level"
    >>

StringsNew ==
    ("color_theme" :> "Default") @@
    ("shown_boxes" :> "cpu mem net proc") @@
    ("graph_symbol" :> "braille") @@
    ("presets" :>
        "cpu:1:default,proc:0:default cpu:0:default,mem:0:default,net:0:default cpu:0:block,net:0:tty") @@
    ("graph_symbol_cpu" :> "default") @@
    ("graph_symbol_mem" :> "default") @@
    ("graph_symbol_net" :> "default") @@
    ("graph_symbol_proc" :> "default") @@
    ("proc_sorting" :> "cpu lazy") @@
    ("cpu_graph_upper" :> "total") @@
    ("cpu_graph_lower" :> "total") @@
    ("cpu_sensor" :> "Auto") @@
    ("cpu_core_map" :> "") @@
    ("temp_scale" :> "celsius") @@
    ("clock_format" :> "%X") @@
    ("custom_cpu_name" :> "") @@
    ("disks_filter" :> "") @@
    ("io_graph_speeds" :> "") @@
    ("net_iface" :> "") @@
    ("log_level" :> "WARNING") @@
    ("proc_filter" :> "") @@
    ("proc_command" :> "") @@
    ("selected_name" :> "")

BoolsNew ==
    ("theme_background" :> TRUE) @@
    ("truecolor" :> TRUE) @@
    ("rounded_corners" :> TRUE) @@
    ("proc_reversed" :> FALSE) @@
    ("proc_tree" :> FALSE) @@
    ("proc_colors" :> TRUE) @@
    ("proc_gradient" :> TRUE) @@
    ("proc_per_core" :> TRUE) @@
    ("proc_mem_bytes" :> TRUE) @@
    ("proc_info_smaps" :> FALSE) @@
    ("proc_left" :> FALSE) @@
    ("cpu_invert_lower" :> TRUE) @@
    ("cpu_single_graph" :> FALSE) @@
    ("cpu_bottom" :> FALSE) @@
    ("show_uptime" :> TRUE) @@
    ("check_temp" :> TRUE) @@
    ("show_coretemp" :> TRUE) @@
    ("show_cpu_freq" :> TRUE) @@
    ("background_update" :> TRUE) @@
    ("mem_graphs" :> TRUE) @@
    ("mem_below_net" :> FALSE) @@
    ("show_swap" :> TRUE) @@
    ("swap_disk" :> TRUE) @@
    ("show_disks" :> TRUE) @@
    ("only_physical" :> TRUE) @@
    ("use_fstab" :> FALSE) @@
    ("show_io_stat" :> TRUE) @@
    ("io_mode" :> FALSE) @@
    ("io_graph_combined" :> FALSE) @@
    ("net_auto" :> TRUE) @@
    ("net_sync" :> FALSE) @@
    ("show_battery" :> TRUE) @@
    ("tty_mode" :> FALSE) @@
    ("force_tty" :> FALSE) @@
    ("lowcolor" :> FALSE) @@
    ("show_detailed" :> FALSE) @@
    ("proc_filtering" :> FALSE)

\* the int table built without update_ms
IntsNew_without_update_ms ==
    ("net_download" :> 100) @@
    ("net_upload" :> 100) @@
    ("detailed_pid" :> 0) @@
    ("selected_pid" :> 0) @@
    ("proc_start" :> 0) @@
    ("proc_selected" :> 0) @@
    ("proc_last_selected" :> 0)

IntsNew ==
    ("update_ms" :> 2000) @@
    ("net_download" :> 100) @@
    ("net_upload" :> 100) @@
    ("detailed_pid" :> 0) @@
    ("selected_pid" :> 0) @@
    ("proc_start" :> 0) @@
    ("proc_selected" :> 0) @@
    ("proc_last_selected" :> 0)

valid_graph_symbols == <<"braille", "block", "tty">>
valid_graph_symbols_def == <<"default", "braille", "block", "tty">>
valid_boxes == <<"cpu", "mem", "net", "proc">>
PresetListNew == <<"cpu:0:default,mem:0:default,net:0:default,proc:0:default">>

\* Global::new(0, "1.0.0")
version == "1.0.0"

\* Logger::new
log_levels == <<"DISABLED", "ERROR", "WARNING", "INFO", "DEBUG">>

EmptyMap == [k \in {} |-> FALSE]

\* HashMap::insert
Insert(map, key, value) == [k \in (DOMAIN map) \cup {key} |->
                                IF k = key THEN value ELSE map[k]]

\* ------------------------------------------------------------------------
\* Validators
\* ------------------------------------------------------------------------

\* is_valid_int with the lower bound of update_ms taken as exclusive
is_valid_int_exclusive(key, value) ==
    LET p == ParseI32(value) IN
    IF key = "update_ms" THEN
        IF p.ok /\ p.v <= 100 THEN [res |-> "ValueTooLow", v |-> 0]
        ELSE IF p.ok /\ p.v > 86400000 THEN [res |-> "ValueTooHigh", v |-> 0]
        ELSE IF p.ok THEN [res |-> "Ok", v |-> p.v]
        ELSE [res |-> "ParseError", v |-> 0]
    ELSE
        IF p.ok THEN [res |-> "Ok", v |-> p.v]
        ELSE [res |-> "ParseError", v |-> 0]

\* Result<i32, InvalidIntReason>: [res |-> "Ok", v |-> n] or
\* [res |-> reason, v |-> 0]
is_valid_int(key, value) ==
    LET p == ParseI32(value) IN
    IF key = "update_ms" THEN
        IF p.ok /\ p.v < 100 THEN [res |-> "ValueTooLow", v |-> 0]
        ELSE IF p.ok /\ p.v > 86400000 THEN [res |-> "ValueTooHigh", v |-> 0]
        ELSE IF p.ok THEN [res |-> "Ok", v |-> p.v]
        ELSE [res |-> "ParseError", v |-> 0]
    ELSE
        IF p.ok THEN [res |-> "Ok", v |-> p.v]
        ELSE [res |-> "ParseError", v |-> 0]

\* the checks made on one box specification of a preset, in code order
BoxReason(b) ==
    LET vals == ssplit(b, ":") IN
    IF Len(vals) # 3 THEN "MalformattedError"
    ELSE IF ~is_in(vals[1], <<"cpu", "mem", "net", "proc">>)
         THEN "InvalidBoxName"
    ELSE IF ~is_in(vals[2], <<"0", "1">>) THEN "InvalidPositionValue"
    ELSE IF vals[3] \notin Range(valid_graph_symbols_def)
         THEN "InvalidGraphName"
    ELSE "Ok"

\* the inner loop over the boxes of one preset: the first failure ends it
RECURSIVE BoxesReason(_)
BoxesReason(boxes) ==
    IF boxes = <<>> THEN "Ok"
    ELSE IF BoxReason(Head(boxes)) # "Ok" THEN BoxReason(Head(boxes))
         ELSE BoxesReason(Tail(boxes))

\* the outer loop over the presets; new_presets grows by the preset that
\* has just passed its checks
RECURSIVE PresetLoop(_, _)
PresetLoop(presets, new_presets) ==
    IF presets = <<>> THEN [res |-> "Ok", new_presets |-> new_presets]
    ELSE LET preset == Head(presets)
             boxes == ssplit(preset, ",")
         IN
         IF Len(boxes) > 4
         THEN [res |-> "TooManyPresets", new_presets |-> new_presets]
         ELSE IF BoxesReason(boxes) # "Ok"
              THEN [res |-> BoxesReason(boxes), new_presets |-> new_presets]
              ELSE PresetLoop(Tail(presets), Append(new_presets, preset))

\* Result<bool, InvalidPresetReason> together with the preset list the
\* call leaves behind: Ok(true) is res "Ok", Err(r) is res r.  self is the
\* store the method is called on, a record of its fields.
is_valid_presets(self, value) ==
    LET presets == ssplit(value, " ")
        new_presets == presets
        loop == PresetLoop(presets, new_presets)
    IN
    IF Len(presets) > 9
    THEN [res |-> "TooManyPresets", preset_list |-> self.preset_list]
    ELSE IF loop.res # "Ok"
         THEN [res |-> loop.res, preset_list |-> self.preset_list]
         ELSE [res |-> "Ok", preset_list |-> loop.new_presets]

set_current_boxes(boxes) == boxes

\* check_boxes with the selection set before the names are checked
check_boxes_sets_first(self, value) ==
    LET boxes == ssplit(value, " ") IN
    IF \E i \in 1..Len(boxes) : boxes[i] \notin Range(valid_boxes)
    THEN [ok |-> FALSE, current_boxes |-> set_current_boxes(boxes)]
    ELSE [ok |-> TRUE, current_boxes |-> set_current_boxes(boxes)]

\* the bool returned, and the box selection the call leaves behind
check_boxes(self, value) ==
    LET boxes == ssplit(value, " ") IN
    IF \E i \in 1..Len(boxes) : boxes[i] \notin Range(valid_boxes)
    THEN [ok |-> FALSE, current_boxes |-> self.current_boxes]
    ELSE [ok |-> TRUE, current_boxes |-> set_current_boxes(boxes)]

\* CoreMapGood with only the first token checked
CoreMapGood_first_only(maps) ==
    \A i \in 1..Len(maps) :
        LET map_split == ssplit(maps[i], ":") IN
        i = 1 => /\ Len(map_split) = 2
                 /\ is_int(map_split[1])
                 /\ is_int(map_split[2])

\* the loop of the cpu_core_map arm: TRUE when no token fails
CoreMapGood(maps) ==
    \A i \in 1..Len(maps) :
        LET map_split == ssplit(maps[i], ":") IN
        /\ Len(map_split) = 2
        /\ is_int(map_split[1])
        /\ is_int(map_split[2])

\* the loop of the io_graph_speeds arm: TRUE when no token fails
IoSpeedsGood(maps) ==
    \A i \in 1..Len(maps) :
        LET map_split == ssplit(maps[i], ":") IN
        /\ Len(map_split) = 2
        /\ map_split[1] # ""
        /\ is_int(map_split[2])

\* Result<bool, InvalidStrReason> with the side effects of the call:
\* res is "Ok" for Ok(true), the reason's name for Err(reason), and
\* "panic" where the code reaches todo!()
is_valid_string(self, key, value) ==
    LET same == [res |-> "Ok", current_boxes |-> self.current_boxes,
                 preset_list |-> self.preset_list]
        Err(r) == [same EXCEPT !.res = r]
    IN
    IF key = "log_level" THEN
        (IF value \in Range(log_levels) THEN same ELSE Err("LogLevel"))
    ELSE IF key = "graph_symbol" THEN
        (IF value \in Range(valid_graph_symbols) THEN same
         ELSE Err("GraphSymbolIdentifier"))
    ELSE IF key = "graph_symbol_" /\ StartsWith(key, "graph_symbol_")
                /\ value # "default" THEN
        (IF value \in Range(valid_graph_symbols) THEN same
         ELSE Err("GraphSymbolIdentifier"))
    ELSE IF key = "shown_boxes" /\ value # "" THEN
        (LET c == check_boxes(self, value) IN
         IF c.ok THEN [same EXCEPT !.current_boxes = c.current_boxes]
         ELSE [Err("ShownBoxes") EXCEPT
                   !.current_boxes = c.current_boxes])
    ELSE IF key = "presets" THEN
        (LET p == is_valid_presets(self, value) IN
         IF p.res = "Ok" THEN [same EXCEPT !.preset_list = p.preset_list]
         ELSE Err("panic"))
    ELSE IF key = "cpu_core_map" THEN
        (IF CoreMapGood(ssplit(value, " ")) THEN same
         ELSE Err("CpuCoreMapError"))
    ELSE IF key = "io_graph_speeds" THEN
        (IF IoSpeedsGood(ssplit(value, " ")) THEN same
         ELSE Err("IOGraphSpeedError"))
    ELSE Err("ParseError")

\* ------------------------------------------------------------------------
\* Config::load
\* ------------------------------------------------------------------------

\* valid_names taken from the keys of the tables instead of the schema
valid_names_tables ==
    descriptions \o <<"tty_mode", "lowcolor", "show_detailed",
                      "proc_filtering">>

\* valid_names: the first field of every schema entry
valid_names == [i \in 1..Len(descriptions) |-> descriptions[i]]

\* the key and the value load takes from a line: the first two pieces of
\* the split on '=', trimmed
LineHasPair(line) == Len(Split(line, "=")) >= 2
LineKey(line) == Trim(Split(line, "=")[1])
LineValue(line) == Trim(Split(line, "=")[2])

\* lines the scan passes over before it looks for a key
LineSkipped(line) == Trim(line) = "" \/ StartsWith(Trim(line), "#")

\* the warning pushed for an Err(reason) of is_valid_string
StrWarning(reason, key, value) ==
    CASE reason = "ParseError" ->
            "Got an invalid string value for config name: " \o key
      [] reason = "LogLevel" -> "Invalid log_level: " \o value
      [] reason = "GraphSymbolIdentifier" ->
            "Invalid graph symbol identifier for " \o key \o " : " \o value
      [] reason = "ShownBoxes" -> "Invalid box name(s) in shown_boxes!"
      [] reason = "TooManyPresets" -> "Too many presets entered!"
      [] reason = "TooManyBoxes" -> "Too many boxes entered for preset!"
      [] reason = "MalformattedError" ->
            "Malformatted preset in config value presets!"
      [] reason = "InvalidBoxName" ->
            "Invalid box name in config value presets!"
      [] reason = "InvalidPositionValue" ->
            "Invalid position value in config value presets!"
      [] reason = "InvalidGraphName" ->
            "Invalid graph name in config value presets!"
      [] reason = "CpuCoreMapError" -> "Invalid formatting of cpu_core_map!"
      [] reason = "IOGraphSpeedError" ->
            "Invalid formatting of io_graph_speeds!"

\* the warning pushed for an Err(reason) of is_valid_int
IntWarning(reason) ==
    CASE reason = "ValueTooHigh" ->
            "Config value update_ms set too high (>86400000)."
      [] reason = "ValueTooLow" ->
            "Config value update_ms set too low (<100)."
      [] reason = "ParseError" -> "Invalid numerical value!"

\* The store and the warning vector the scan works on, as one record.
Store ==
    [strings |-> strings, bools |-> bools, ints |-> ints,
     current_boxes |-> current_boxes, preset_list |-> preset_list,
     load_warnings |-> load_warnings, panicked |-> FALSE]

Warn(self, w) ==
    [self EXCEPT !.load_warnings = Append(self.load_warnings, w)]

\* the arm of the scan for a key of the bool table
bool_arm(self, key, value) ==
    IF ~is_bool(value)
    THEN Warn(self, "Got an invalid bool value for config name: " \o key)
    ELSE IF parse_bool(value).some
         THEN [self EXCEPT
                   !.bools = Insert(self.bools, key, parse_bool(value).v)]
         ELSE [self EXCEPT !.panicked = TRUE]

\* the arm of the scan for a key of the int table
int_arm(self, key, value) ==
    IF ~is_int(value)
    THEN Warn(self, "Got an invalid integer value for config name: " \o key)
    ELSE LET r == is_valid_int(key, value) IN
         IF r.res = "Ok"
         THEN [self EXCEPT !.ints = Insert(self.ints, key, r.v)]
         ELSE Warn(self, IntWarning(r.res))

\* the arm of the scan for a key of the string table
string_arm(self, key, quoted) ==
    LET value == TrimMatches(quoted, "\"")
        r == is_valid_string(self, key, value)
    IN
    IF r.res = "Ok"
    THEN [self EXCEPT
              !.strings = Insert(self.strings, key, value),
              !.current_boxes = r.current_boxes,
              !.preset_list = r.preset_list]
    ELSE IF r.res \in {"panic", "PresetsError"}
         THEN [self EXCEPT !.panicked = TRUE]
         ELSE [Warn(self, StrWarning(r.res, key, value)) EXCEPT
                   !.current_boxes = r.current_boxes,
                   !.preset_list = r.preset_list]

\* One pass of the body of the for loop over the lines: the store and the
\* warning vector as the pass leaves them, and whether it panicked.
scan_line(self, line) ==
    LET key == LineKey(line)
        value == LineValue(line)
    IN
    IF LineSkipped(line) THEN self
    ELSE IF ~LineHasPair(line) THEN self
    ELSE IF key \notin Range(valid_names) THEN self
    ELSE IF key \in DOMAIN self.bools THEN bool_arm(self, key, value)
    ELSE IF key \in DOMAIN self.ints THEN int_arm(self, key, value)
    ELSE IF key \in DOMAIN self.strings THEN string_arm(self, key, value)
    ELSE self

Snapshot ==
    [strings |-> strings, strings_tmp |-> strings_tmp,
     bools |-> bools, bools_tmp |-> bools_tmp,
     ints |-> ints, ints_tmp |-> ints_tmp,
     current_boxes |-> current_boxes, preset_list |-> preset_list,
     write_new |-> write_new, load_warnings |-> load_warnings]

\* load is entered: the existence check
LoadExists ==
    /\ pc = "idle"
    /\ pre' = Snapshot
    /\ write_new' = (IF ~file.exists THEN TRUE ELSE write_new)
    /\ pc' = "open"
    /\ UNCHANGED <<quit, ret, file, strings, strings_tmp, bools, bools_tmp, ints,
                   ints_tmp, current_boxes, preset_list, locked, write_lock,
                   load_warnings, idx, result>>

\* File::open(&self.conf_file)?
LoadOpen ==
    /\ pc = "open"
    /\ IF ~file.exists
       THEN pc' = "done" /\ result' = "Err"
       ELSE pc' = "header" /\ result' = result
    /\ UNCHANGED <<quit, ret, file, strings, strings_tmp, bools, bools_tmp, ints,
                   ints_tmp, current_boxes, preset_list, write_new, locked,
                   write_lock, load_warnings, idx, pre>>

\* LoadHeader with an empty file reported as a read error
LoadHeader_eof_err ==
    /\ pc = "header"
    /\ IF file.lines = <<>>
       THEN /\ pc' = "done"
            /\ result' = "Err"
            /\ UNCHANGED <<write_new, idx>>
       ELSE /\ write_new' = (IF ~Contains(file.lines[1], version)
                             THEN TRUE ELSE write_new)
            /\ idx' = 1
            /\ pc' = "scan"
            /\ result' = result
    /\ UNCHANGED <<quit, ret, file, strings, strings_tmp, bools, bools_tmp, ints,
                   ints_tmp, current_boxes, preset_list, locked, write_lock,
                   load_warnings, pre>>

\* LoadHeader with a stale header ending the load
LoadHeader_stale_returns ==
    /\ pc = "header"
    /\ IF file.lines = <<>>
       THEN /\ pc' = "done"
            /\ result' = "Ok"
            /\ UNCHANGED <<write_new, idx>>
       ELSE IF ~Contains(file.lines[1], version)
       THEN /\ write_new' = TRUE
            /\ idx' = 1
            /\ pc' = "done"
            /\ result' = "Ok"
       ELSE /\ write_new' = write_new
            /\ idx' = 1
            /\ pc' = "scan"
            /\ result' = result
    /\ UNCHANGED <<quit, ret, file, strings, strings_tmp, bools, bools_tmp, ints,
                   ints_tmp, current_boxes, preset_list, locked, write_lock,
                   load_warnings, pre>>

\* the first line is read and compared with the version
LoadHeader ==
    /\ pc = "header"
    /\ IF file.lines = <<>>
       THEN /\ pc' = "done"
            /\ result' = "Ok"
            /\ UNCHANGED <<write_new, idx>>
       ELSE /\ write_new' = (IF ~Contains(file.lines[1], version)
                             THEN TRUE ELSE write_new)
            /\ idx' = 1
            /\ pc' = "scan"
            /\ result' = result
    /\ UNCHANGED <<quit, ret, file, strings, strings_tmp, bools, bools_tmp, ints,
                   ints_tmp, current_boxes, preset_list, locked, write_lock,
                   load_warnings, pre>>

\* the scan writing the bool table behind the gate, as set_bool does
LoadLine_gated ==
    /\ pc = "scan"
    /\ idx < Len(file.lines)
    /\ \E out \in {scan_line(Store, file.lines[idx + 1])} :
        /\ strings' = out.strings
        /\ IF locked
           THEN bools' = bools /\ bools_tmp' = out.bools
           ELSE bools' = out.bools /\ bools_tmp' = bools_tmp
        /\ ints' = out.ints
        /\ current_boxes' = out.current_boxes
        /\ preset_list' = out.preset_list
        /\ load_warnings' = out.load_warnings
        /\ IF out.panicked
           THEN pc' = "done" /\ result' = "panic"
           ELSE pc' = "scan" /\ result' = result
    /\ idx' = idx + 1
    /\ UNCHANGED <<quit, ret, file, strings_tmp, ints_tmp, write_new, locked,
                   write_lock, pre>>

\* one iteration of the for loop over the remaining lines
LoadLine ==
    /\ pc = "scan"
    /\ idx < Len(file.lines)
    /\ \E out \in {scan_line(Store, file.lines[idx + 1])} :
        /\ strings' = out.strings
        /\ bools' = out.bools
        /\ ints' = out.ints
        /\ current_boxes' = out.current_boxes
        /\ preset_list' = out.preset_list
        /\ load_warnings' = out.load_warnings
        /\ IF out.panicked
           THEN pc' = "done" /\ result' = "panic"
           ELSE pc' = "scan" /\ result' = result
    /\ idx' = idx + 1
    /\ UNCHANGED <<quit, ret, file, strings_tmp, bools_tmp, ints_tmp, write_new, locked,
                   write_lock, pre>>

\* the lines are exhausted: the warning check and Ok(())
LoadFinalize ==
    /\ pc = "scan"
    /\ idx = Len(file.lines)
    /\ write_new' = (IF load_warnings # <<>> THEN TRUE ELSE write_new)
    /\ pc' = "done"
    /\ result' = "Ok"
    /\ UNCHANGED <<quit, ret, file, strings, strings_tmp, bools, bools_tmp, ints,
                   ints_tmp, current_boxes, preset_list, locked, write_lock,
                   load_warnings, idx, pre>>

\* ------------------------------------------------------------------------
\* The files the model loads
\* ------------------------------------------------------------------------

HeaderPool ==
    {"#? Config file for btop-rs v. 1.0.0",
     "#? Config file for btop-rs v. 0.9.2"}

\* lines from which the files of several lines are built
ScanPool ==
    {"truecolor = false",
     "truecolor = yes",
     "proc_tree = True",
     "update_ms = 100",
     "update_ms = 99",
     "presets = \"cpu:0:default,mem:0:tty proc:1:block\"",
     "presets = \"cpu:2:default\"",
     "graph_symbol = \"block\"",
     "graph_symbol = \"ascii\"",
     "cpu_core_map = \"4:a\"",
     "foo = bar",
     "tty_mode = true",
     "#* Update time in milliseconds",
     ""}

\* keys and values of the files of one line: every key of the three
\* tables, and some keys of none
AbsentKeys == {"foo", "graph_symbol_", "update_ms2"}
KeyPool ==
    (DOMAIN StringsNew) \cup (DOMAIN BoolsNew) \cup (DOMAIN IntsNew)
        \cup AbsentKeys

BoolValuePool ==
    {"true", "false", "True", "False", "TRUE", "FALSE", "tRue", "yes", "1",
     "", "\"true\""}

\* integer literals with the number each denotes
IntLiterals ==
    ("-2147483648" :> MinI32) @@ ("-1" :> -1) @@ ("0" :> 0) @@ ("+5" :> 5) @@
    ("99" :> 99) @@ ("100" :> 100) @@ ("101" :> 101) @@ ("2000" :> 2000) @@
    ("86399999" :> 86399999) @@ ("86400000" :> 86400000) @@
    ("86400001" :> 86400001) @@ ("2147483647" :> MaxI32)

IntValuePool ==
    (DOMAIN IntLiterals)
        \cup {"2147483648", "-2147483649", "12a", "1 0", "-", "0x10", "1.5"}

TenPresets ==
    "cpu:0:default cpu:0:default cpu:0:default cpu:0:default cpu:0:default "
        \o "cpu:0:default cpu:0:default cpu:0:default cpu:0:default "
        \o "cpu:0:default"

PresetValuePool ==
    {"cpu:0:default,mem:0:tty",
     "cpu:0:default,mem:0:tty proc:1:block",
     "cpu:1:braille net:0:default proc:0:tty",
     TenPresets,
     TenPresets \o " cpu:0:xyz",
     "cpu:0:default,mem:0:default,net:0:default,proc:0:default,cpu:1:tty",
     "cpu:0:default,mem:0:default,net:0:default,proc:0:default,cpu:1",
     "cpu:0",
     "cpu:0:default:1",
     "gpu:0:default",
     "gpu:2:xyz",
     "cpu:2:default",
     "cpu:2:xyz",
     "cpu:0:xyz",
     "cpu:0:default mem:1:ascii"}

StringValuePool ==
    {"block", "braille", "tty", "default", "ascii", "WARNING", "Default",
     "cpu mem net proc", "proc cpu", "net", "cpu gpu", "cpu mem nets",
     "4:0 5:1 6:3", "4:0 5:1", "-1:+2", "4:a", "4:0 5:a", "a:0 5:1", "4",
     "4:0:1", "4:0 5", "/mnt/media:100 /:20", "exclude=/boot"}

Quoted(v) == "\"" \o v \o "\""

ValuePool ==
    BoolValuePool \cup IntValuePool
        \cup {Quoted(v) : v \in PresetValuePool \cup StringValuePool}
        \cup {"block", "DEBUG", "false=x", "True = 1"}

OneLineBodies == {<<k \o " = " \o v>> : k \in KeyPool, v \in ValuePool}

ScanBodies == UNION {[1..n -> ScanPool] : n \in 0..MaxLines}

\* files of two lines in which the second line meets what the first left
PairBodies ==
    {<<"shown_boxes = \"proc cpu\"", "shown_boxes = \"cpu gpu\"">>,
     <<"cpu_core_map = \"4:0 5:1 6:3\"", "cpu_core_map = \"4:0 5:a\"">>}

Files ==
    {[exists |-> FALSE, lines |-> <<>>], [exists |-> TRUE, lines |-> <<>>]}
        \cup {[exists |-> TRUE, lines |-> <<h>> \o body] :
                h \in HeaderPool,
                body \in ScanBodies \cup OneLineBodies \cup PairBodies}

\* ------------------------------------------------------------------------
\* clean_quit, the signal handler and the atexit handler
\* ------------------------------------------------------------------------

\* main has registered the handlers; nobody has asked to quit.
\* frames is the stack of clean_quit calls on the one thread, innermost
\* last; status is what the process is doing.
NoQuit ==
    [frames |-> <<>>, quitting |-> FALSE, status |-> "running", exits |-> 0]

\* the innermost call of clean_quit
Top == quit.frames[Len(quit.frames)]

\* the frames without the innermost one
Outer == SubSeq(quit.frames, 1, Len(quit.frames) - 1)

\* the frames with the innermost one moved to another place of clean_quit
TopAt(at) == Outer \o <<[Top EXCEPT !.at = at]>>

\* the process is neither gone nor stuck
Alive == quit.status \in {"running", "exiting"}

\* load holds the guard of the Global mutex from its lock().unwrap() to
\* its return
HeldByLoad == pc \in {"header", "scan"}

\* a call of clean_quit holds the guard from its lock().unwrap() on
HeldByQuit ==
    \E i \in 1..Len(quit.frames) : quit.frames[i].at # "lock"

\* load panicked with the guard held: the mutex is poisoned
Poisoned == result = "panic"

\* the code of main runs: no handler is on top of it and exit has not
\* been entered
MainRuns == quit.frames = <<>> /\ quit.status = "running"

\* SIGINT is delivered: signal_handler calls clean_quit(0) on top of
\* whatever the thread was doing; the signal stays blocked while its
\* handler runs
Sigint ==
    /\ Alive
    /\ \A i \in 1..Len(quit.frames) : quit.frames[i].via # "signal"
    /\ quit' = [quit EXCEPT
                    !.frames = Append(quit.frames,
                        [sig |-> 0, at |-> "lock", via |-> "signal"])]
    /\ UNCHANGED <<file, strings, strings_tmp, bools, bools_tmp, ints,
                   ints_tmp, current_boxes, preset_list, write_new, locked,
                   write_lock, load_warnings, pc, idx, result, pre, ret>>

\* main ends after load, by return or by the panic of load: the runtime
\* calls exit, which runs _exit_handler, which calls clean_quit(-1)
MainReturn ==
    /\ MainRuns
    /\ pc = "done"
    /\ quit' = [quit EXCEPT
                    !.status = "exiting",
                    !.frames = <<[sig |-> -1, at |-> "lock",
                                  via |-> "atexit"]>>]
    /\ UNCHANGED <<file, strings, strings_tmp, bools, bools_tmp, ints,
                   ints_tmp, current_boxes, preset_list, write_new, locked,
                   write_lock, load_warnings, pc, idx, result, pre, ret>>

\* instance.lock().unwrap() of clean_quit.  The mutex is not reentrant:
\* locking it on the thread that holds it never returns, by deadlock or by
\* a panic, which aborts in an extern "C" handler; unwrap on the poisoned
\* mutex panics as well.
QuitLock ==
    /\ Alive
    /\ quit.frames # <<>>
    /\ Top.at = "lock"
    /\ IF HeldByLoad \/ HeldByQuit
       THEN \E outcome \in {"blocked", "aborted"} :
                quit' = [quit EXCEPT !.status = outcome]
       ELSE IF Poisoned
       THEN quit' = [quit EXCEPT !.status = "aborted"]
       ELSE quit' = [quit EXCEPT !.frames = TopAt("check")]
    /\ UNCHANGED <<file, strings, strings_tmp, bools, bools_tmp, ints,
                   ints_tmp, current_boxes, preset_list, write_new, locked,
                   write_lock, load_warnings, pc, idx, result, pre, ret>>

\* the test of the quitting flag: return when it is set (the guard is
\* dropped; an atexit handler that returns lets exit finish), else set it
QuitCheck ==
    /\ Alive
    /\ quit.frames # <<>>
    /\ Top.at = "check"
    /\ IF quit.quitting
       THEN quit' = [quit EXCEPT
                        !.frames = Outer,
                        !.status = IF Top.via = "atexit" /\ Outer = <<>>
                                   THEN "exited" ELSE quit.status]
       ELSE quit' = [quit EXCEPT
                        !.quitting = TRUE,
                        !.frames = TopAt("exit")]
    /\ UNCHANGED <<file, strings, strings_tmp, bools, bools_tmp, ints,
                   ints_tmp, current_boxes, preset_list, write_new, locked,
                   write_lock, load_warnings, pc, idx, result, pre, ret>>

\* exit(sig) of clean_quit, the guard still held.  The first exit runs the
\* registered _exit_handler; an exit called from inside that handler is
\* undefined in C: the C library ends the process or hangs in it.
QuitExit ==
    /\ Alive
    /\ quit.frames # <<>>
    /\ Top.at = "exit"
    /\ IF quit.status = "exiting"
       THEN \E outcome \in {"exited", "blocked"} :
                quit' = [quit EXCEPT
                            !.status = outcome,
                            !.exits = quit.exits + 1]
       ELSE quit' = [quit EXCEPT
                        !.status = "exiting",
                        !.exits = quit.exits + 1,
                        !.frames = Append(TopAt("in_exit"),
                            [sig |-> -1, at |-> "lock", via |-> "atexit"])]
    /\ UNCHANGED <<file, strings, strings_tmp, bools, bools_tmp, ints,
                   ints_tmp, current_boxes, preset_list, write_new, locked,
                   write_lock, load_warnings, pc, idx, result, pre, ret>>

\* ------------------------------------------------------------------------
\* The accessors of the store
\* ------------------------------------------------------------------------

\* no call on the store yet
NoRet == [op |-> "none", key |-> "", b |-> FALSE, s |-> ""]

\* main has loaded the configuration and the process is alive: the
\* callers get the store once load has returned
ApiReady == pc = "done" /\ result # "panic"

\* keys the callers pass
BoolKeys == {"truecolor", "update_ms", "foo"}
StringKeys == {"shown_boxes", "foo"}

\* Config::locked raising write_new only while the gate is clear
Config_locked_clear_gate_only(key) ==
    [gate |-> locked,
     write_new |-> IF ~write_new /\ ~locked /\ key \in Range(descriptions)
                   THEN TRUE ELSE write_new]

\* Config::locked with write_new assigned from the schema lookup
Config_locked_reassigns(key) ==
    [gate |-> locked, write_new |-> key \in Range(descriptions)]

\* Config::locked: the gate it returns and write_new as it leaves it
Config_locked(key) ==
    [gate |-> locked,
     write_new |-> IF ~write_new /\ key \in Range(descriptions)
                   THEN TRUE ELSE write_new]

\* set_bool writing the live table whatever the gate says
set_bool_writes_live(key, value) ==
    LET l == Config_locked(key) IN
    IF l.gate
    THEN [bools |-> Insert(bools, key, value),
          bools_tmp |-> Insert(bools_tmp, key, value),
          write_new |-> l.write_new]
    ELSE [bools |-> Insert(bools, key, value), bools_tmp |-> bools_tmp,
          write_new |-> l.write_new]

\* Config::set_bool: the two bool tables and write_new as it leaves them
set_bool(key, value) ==
    LET l == Config_locked(key) IN
    IF l.gate
    THEN [bools |-> bools, bools_tmp |-> Insert(bools_tmp, key, value),
          write_new |-> l.write_new]
    ELSE [bools |-> Insert(bools, key, value), bools_tmp |-> bools_tmp,
          write_new |-> l.write_new]

\* get_bool looking in the pending table when the live one has no entry
get_bool_pending(key) ==
    IF key \in DOMAIN bools THEN bools[key]
    ELSE IF key \in DOMAIN bools_tmp THEN bools_tmp[key]
    ELSE FALSE

\* Config::get_bool
get_bool(key) == IF key \in DOMAIN bools THEN bools[key] ELSE FALSE

\* Config::get_boxes
get_boxes(key) == IF key \in DOMAIN strings THEN strings[key] ELSE ""

SetBool ==
    /\ ApiReady
    /\ \E key \in BoolKeys, value \in BOOLEAN :
        LET r == set_bool(key, value) IN
        /\ bools' = r.bools
        /\ bools_tmp' = r.bools_tmp
        /\ write_new' = r.write_new
        /\ ret' = [op |-> "set_bool", key |-> key, b |-> value, s |-> ""]
    /\ UNCHANGED <<quit, file, strings, strings_tmp, ints, ints_tmp, current_boxes,
                   preset_list, locked, write_lock, load_warnings, pc, idx,
                   result, pre>>

GetBool ==
    /\ ApiReady
    /\ \E key \in BoolKeys :
        ret' = [op |-> "get_bool", key |-> key, b |-> get_bool(key),
                s |-> ""]
    /\ UNCHANGED <<quit, file, strings, strings_tmp, bools, bools_tmp, ints,
                   ints_tmp, current_boxes, preset_list, write_new, locked,
                   write_lock, load_warnings, pc, idx, result, pre>>

GetBoxes ==
    /\ ApiReady
    /\ \E key \in StringKeys :
        ret' = [op |-> "get_boxes", key |-> key, b |-> FALSE,
                s |-> get_boxes(key)]
    /\ UNCHANGED <<quit, file, strings, strings_tmp, bools, bools_tmp, ints,
                   ints_tmp, current_boxes, preset_list, write_new, locked,
                   write_lock, load_warnings, pc, idx, result, pre>>

\* the collaborator that owns the gate engages or clears it
LockGate ==
    /\ pc = "idle" \/ ApiReady
    /\ locked' = ~locked
    /\ ret' = [op |-> "lock_gate", key |-> "", b |-> locked', s |-> ""]
    /\ UNCHANGED <<quit, file, strings, strings_tmp, bools, bools_tmp, ints,
                   ints_tmp, current_boxes, preset_list, write_new,
                   write_lock, load_warnings, pc, idx, result, pre>>

\* ------------------------------------------------------------------------
\* Specification
\* ------------------------------------------------------------------------

Init ==
    /\ file \in Files
    /\ strings = StringsNew
    /\ strings_tmp = EmptyMap
    /\ bools = BoolsNew
    /\ bools_tmp = EmptyMap
    /\ ints = IntsNew
    /\ ints_tmp = EmptyMap
    /\ current_boxes = <<>>
    /\ preset_list = PresetListNew
    /\ write_new = FALSE
    /\ locked = FALSE
    /\ write_lock = FALSE
    /\ load_warnings = <<>>
    /\ pc = "idle"
    /\ idx = 0
    /\ result = "none"
    /\ pre = [strings |-> StringsNew, strings_tmp |-> EmptyMap,
              bools |-> BoolsNew, bools_tmp |-> EmptyMap,
              ints |-> IntsNew, ints_tmp |-> EmptyMap,
              current_boxes |-> <<>>, preset_list |-> PresetListNew,
              write_new |-> FALSE, load_warnings |-> <<>>]
    /\ ret = NoRet
    /\ quit = NoQuit

Next ==
    \/ LoadExists
    \/ LoadOpen
    \/ LoadHeader
    \/ LoadLine
    \/ LoadFinalize

Spec == Init /\ [][Next]_vars

\* the files of the runs in which the accessors are called
StoreFiles ==
    {f \in Files :
        \/ ~f.exists
        \/ f.lines = <<>>
        \/ /\ Len(f.lines) = 2
           /\ f.lines[2] \in {"truecolor = false", "truecolor = yes",
                              "update_ms = 100", "foo = bar",
                              "shown_boxes = \"proc cpu\""}}

InitStore == Init /\ file \in StoreFiles

\* the one load of main, then the accessors in any order
NextStore ==
    \/ Next
    \/ SetBool
    \/ GetBool
    \/ GetBoxes
    \/ LockGate

SpecStore == InitStore /\ [][NextStore]_vars

\* main with its one load, the signal and the end of the process
NextQuit ==
    \/ MainRuns /\ Next
    \/ Sigint
    \/ MainReturn
    \/ QuitLock
    \/ QuitCheck
    \/ QuitExit

SpecQuit == InitStore /\ [][NextQuit]_vars

TypeOK ==
    /\ pc \in {"idle", "open", "header", "scan", "done"}
    /\ result \in {"none", "Ok", "Err", "panic"}
    /\ write_new \in BOOLEAN
    /\ idx \in 0..(MaxLines + 1)
    /\ locked \in BOOLEAN
    /\ ret.op \in {"none", "set_bool", "get_bool", "get_boxes", "lock_gate"}
    /\ DOMAIN bools_tmp \subseteq BoolKeys
    /\ quit.status \in {"running", "exiting", "exited", "aborted", "blocked"}
    /\ Len(quit.frames) <= 3

\* ------------------------------------------------------------------------
\* Vocabulary of the properties
\* ------------------------------------------------------------------------

BoolLiterals == {"true", "false", "True", "False"}
BoolOf(value) == value \in {"true", "True"}

\* the header does not carry the running version
StaleHeader ==
    file.exists /\ file.lines # <<>> /\ ~Contains(file.lines[1], version)

\* positions of the lines after the header
BodyLines == 2..Len(file.lines)

\* the line is an assignment the scan looks at
Assignment(line) == ~LineSkipped(line) /\ LineHasPair(line)

SchemaKeys == Range(descriptions)

\* an assignment to a schema key of the bool table with an accepted literal
ValidBoolLine(line) ==
    /\ Assignment(line)
    /\ LineKey(line) \in SchemaKeys \cap DOMAIN BoolsNew
    /\ LineValue(line) \in BoolLiterals

\* an assignment to a schema key of the bool table with any other value
BadBoolLine(line) ==
    /\ Assignment(line)
    /\ LineKey(line) \in SchemaKeys \cap DOMAIN BoolsNew
    /\ LineValue(line) \notin BoolLiterals

\* an assignment whose key has no schema entry
UnknownKeyLine(line) == Assignment(line) /\ LineKey(line) \notin SchemaKeys

\* lines of ScanPool whose value the validators reject
RejectedScanLines ==
    {"truecolor = yes", "update_ms = 99", "presets = \"cpu:2:default\"",
     "graph_symbol = \"ascii\"", "cpu_core_map = \"4:a\""}

\* the scan step that is about to process a line
ScanStep == pc = "scan" /\ idx < Len(file.lines)
NextLine == file.lines[idx + 1]

\* the line processed last
Scanned == pc \in {"scan", "done"} /\ idx >= 2
LastLine == file.lines[idx]

\* no later line of the file assigns the key of line i
LastForKey(i) ==
    \A j \in (i + 1)..Len(file.lines) :
        ~(Assignment(file.lines[j])
            /\ LineKey(file.lines[j]) = LineKey(file.lines[i]))

TablesAsBefore ==
    /\ strings = pre.strings
    /\ bools = pre.bools
    /\ ints = pre.ints
    /\ strings_tmp = pre.strings_tmp
    /\ bools_tmp = pre.bools_tmp
    /\ ints_tmp = pre.ints_tmp

\* the whole scan of the given lines from the given store: it ends at the
\* end of the lines or at the first pass that panics
RECURSIVE ScanAll(_, _)
ScanAll(self, lines) ==
    IF lines = <<>> \/ self.panicked THEN self
    ELSE ScanAll(scan_line(self, Head(lines)), Tail(lines))

\* ------------------------------------------------------------------------
\* C1
\* ------------------------------------------------------------------------

\* C1: a rejected value never aborts the scan.  When load has ended on a
\* file that holds a rejected line, it has returned Ok after reading every
\* line, and every valid bool line after the rejected one (the last for its
\* key) is in the live bool table.
C1_RejectionNeverAborts ==
    (pc = "done" /\ file.exists
        /\ \E i \in BodyLines : file.lines[i] \in RejectedScanLines)
    => /\ result = "Ok"
       /\ idx = Len(file.lines)
       /\ \A i \in BodyLines : \A j \in BodyLines :
            (i < j /\ file.lines[i] \in RejectedScanLines
                /\ ValidBoolLine(file.lines[j]) /\ LastForKey(j))
            => bools[LineKey(file.lines[j])] = BoolOf(LineValue(file.lines[j]))

\* ------------------------------------------------------------------------
\* C2
\* ------------------------------------------------------------------------

\* C2: a line that gives a schema key of the bool table a value outside
\* true, false, True, False leaves every table entry as it was and appends
\* exactly one warning, which names the key.
C2_BadBoolKeepsValue ==
    [][(ScanStep /\ BadBoolLine(NextLine))
        => /\ bools' = bools
           /\ strings' = strings
           /\ ints' = ints
           /\ strings_tmp' = strings_tmp
           /\ bools_tmp' = bools_tmp
           /\ ints_tmp' = ints_tmp
           /\ Len(load_warnings') = Len(load_warnings) + 1
           /\ SubSeq(load_warnings', 1, Len(load_warnings)) = load_warnings
           /\ Contains(load_warnings'[Len(load_warnings')],
                       LineKey(NextLine))]_vars

\* a bad bool line has been processed after the key had left its default
C2_Witness ==
    /\ Scanned
    /\ BadBoolLine(LastLine)
    /\ Len(load_warnings) = 1
    /\ bools[LineKey(LastLine)] # BoolsNew[LineKey(LastLine)]

\* ------------------------------------------------------------------------
\* C3
\* ------------------------------------------------------------------------

\* C3: with no config file, load sets the dirty flag, changes no table,
\* appends no warning and returns success.
C3_MissingFileIsSuccess ==
    (pc = "done" /\ ~file.exists)
    => /\ result = "Ok"
       /\ write_new
       /\ TablesAsBefore
       /\ load_warnings = pre.load_warnings

\* ------------------------------------------------------------------------
\* C4
\* ------------------------------------------------------------------------

\* C4: loading an existing file of zero bytes returns success, appends no
\* warning and leaves the tables, the box selection and the preset list as
\* they were.
C4_EmptyFileNoOp ==
    (pc = "done" /\ file.exists /\ file.lines = <<>>)
    => /\ result = "Ok"
       /\ load_warnings = pre.load_warnings
       /\ TablesAsBefore
       /\ current_boxes = pre.current_boxes
       /\ preset_list = pre.preset_list

C4_Witness ==
    pc = "done" /\ file.exists /\ file.lines = <<>> /\ result = "Ok"

\* ------------------------------------------------------------------------
\* C5
\* ------------------------------------------------------------------------

\* C5: after load of an existing but empty file the dirty flag is set.
C5_EmptyFileSetsDirty ==
    (pc = "done" /\ file.exists /\ file.lines = <<>>) => write_new

\* ------------------------------------------------------------------------
\* C6
\* ------------------------------------------------------------------------

\* C6: a header without the running version sets the dirty flag and does
\* not change the scan: load ends with the store, the warnings and the
\* outcome that the scan of the remaining lines produces whatever the
\* header, and when it returns Ok every valid bool line (the last for its
\* key) is in the live bool table.
C6_StaleHeaderStillScans ==
    StaleHeader
    => /\ (pc \in {"scan", "done"} => write_new)
       /\ (pc = "done" =>
            LET end == ScanAll([strings |-> pre.strings,
                                bools |-> pre.bools,
                                ints |-> pre.ints,
                                current_boxes |-> pre.current_boxes,
                                preset_list |-> pre.preset_list,
                                load_warnings |-> pre.load_warnings,
                                panicked |-> FALSE],
                               Tail(file.lines))
            IN
            /\ strings = end.strings
            /\ bools = end.bools
            /\ ints = end.ints
            /\ current_boxes = end.current_boxes
            /\ preset_list = end.preset_list
            /\ load_warnings = end.load_warnings
            /\ (result = "panic") = end.panicked
            /\ (result = "Ok") = ~end.panicked
            /\ (result = "Ok" => idx = Len(file.lines)))
       /\ ((pc = "done" /\ result = "Ok") =>
            \A i \in BodyLines :
                (ValidBoolLine(file.lines[i]) /\ LastForKey(i))
                => bools[LineKey(file.lines[i])]
                        = BoolOf(LineValue(file.lines[i])))

\* a valid line after a stale header has been applied
C6_Witness ==
    /\ StaleHeader
    /\ pc = "done"
    /\ result = "Ok"
    /\ write_new
    /\ load_warnings = <<>>
    /\ \E i \in BodyLines :
        /\ ValidBoolLine(file.lines[i])
        /\ bools[LineKey(file.lines[i])] # BoolsNew[LineKey(file.lines[i])]

\* ------------------------------------------------------------------------
\* C7
\* ------------------------------------------------------------------------

\* C7 as stated: after load, the key of a line without a schema entry is in
\* none of the three live tables and none of the three pending tables.
C7_UnknownKeyAbsent ==
    pc = "done"
    => \A i \in BodyLines :
        (i <= idx /\ UnknownKeyLine(file.lines[i]))
        => LineKey(file.lines[i]) \notin
                (DOMAIN strings) \cup (DOMAIN bools) \cup (DOMAIN ints)
                    \cup (DOMAIN strings_tmp) \cup (DOMAIN bools_tmp)
                    \cup (DOMAIN ints_tmp)

\* C7 amended: a line whose key has no schema entry changes nothing: the
\* three live tables, the three pending tables, the box selection, the
\* preset list, the warnings and the dirty flag are as before the line; and
\* a file with a current header and only such lines loads with the dirty
\* flag clear.
C7_UnknownKeySkipped ==
    /\ [][(ScanStep /\ UnknownKeyLine(NextLine))
            => UNCHANGED <<strings, bools, ints, strings_tmp, bools_tmp,
                           ints_tmp, current_boxes, preset_list,
                           load_warnings, write_new>>]_vars
    /\ []((pc = "done" /\ file.exists /\ file.lines # <<>>
            /\ ~StaleHeader
            /\ \A i \in BodyLines : UnknownKeyLine(file.lines[i]))
          => (result = "Ok" /\ ~write_new /\ load_warnings = <<>>))

\* a line whose key is in a live table but not in the schema was skipped
C7_Witness ==
    /\ pc = "done"
    /\ result = "Ok"
    /\ ~StaleHeader
    /\ idx >= 2
    /\ UnknownKeyLine(LastLine)
    /\ LineKey(LastLine) \in DOMAIN bools
    /\ LineValue(LastLine) \in BoolLiterals
    /\ bools[LineKey(LastLine)] # BoolOf(LineValue(LastLine))
    /\ ~write_new

\* ------------------------------------------------------------------------
\* C8
\* ------------------------------------------------------------------------

\* an assignment of a 32-bit literal to a schema key of the int table
IntLine(line) ==
    /\ Assignment(line)
    /\ LineKey(line) \in SchemaKeys \cap DOMAIN IntsNew
    /\ LineValue(line) \in DOMAIN IntLiterals

\* C8: for update_ms a value below 100 is refused with the too-low warning
\* and a value above 86400000 with the too-high warning, the stored value
\* staying as it was; 100 and 86400000 and everything between are stored.
\* Every other int key of the schema stores any 32-bit value.
C8_UpdateMsBounds ==
    [][(ScanStep /\ IntLine(NextLine))
        => LET key == LineKey(NextLine)
               v == IntLiterals[LineValue(NextLine)]
           IN
           IF key = "update_ms" /\ v < 100
           THEN /\ ints' = ints
                /\ load_warnings' =
                    Append(load_warnings,
                           "Config value update_ms set too low (<100).")
           ELSE IF key = "update_ms" /\ v > 86400000
           THEN /\ ints' = ints
                /\ load_warnings' =
                    Append(load_warnings,
                        "Config value update_ms set too high (>86400000).")
           ELSE /\ ints' = [ints EXCEPT ![key] = v]
                /\ load_warnings' = load_warnings]_vars

\* the lower bound was stored and the value below it then refused
C8_Witness ==
    /\ Scanned
    /\ idx >= 3
    /\ file.lines[idx - 1] = "update_ms = 100"
    /\ LastLine = "update_ms = 99"
    /\ ints["update_ms"] = 100
    /\ load_warnings = <<"Config value update_ms set too low (<100).">>

\* ------------------------------------------------------------------------
\* C9
\* ------------------------------------------------------------------------

\* preset values that break the grammar, with the warning of the first
\* violation in the order: preset count, box count, field count, box name,
\* position flag, graph symbol
ExpectedPresetWarning ==
    (TenPresets :> "Too many presets entered!") @@
    (TenPresets \o " cpu:0:xyz" :> "Too many presets entered!") @@
    ("cpu:0:default,mem:0:default,net:0:default,proc:0:default,cpu:1:tty"
        :> "Too many presets entered!") @@
    ("cpu:0:default,mem:0:default,net:0:default,proc:0:default,cpu:1"
        :> "Too many presets entered!") @@
    ("cpu:0" :> "Malformatted preset in config value presets!") @@
    ("cpu:0:default:1" :> "Malformatted preset in config value presets!") @@
    ("gpu:0:default" :> "Invalid box name in config value presets!") @@
    ("gpu:2:xyz" :> "Invalid box name in config value presets!") @@
    ("cpu:2:default" :> "Invalid position value in config value presets!") @@
    ("cpu:2:xyz" :> "Invalid position value in config value presets!") @@
    ("cpu:0:xyz" :> "Invalid graph name in config value presets!") @@
    ("cpu:0:default mem:1:ascii"
        :> "Invalid graph name in config value presets!")

\* C9: a presets value that breaks the grammar is refused with the warning
\* of its first violation; the preset list and the stored presets string
\* stay as they were.
C9_BadPresetsWarned ==
    [][\A v \in DOMAIN ExpectedPresetWarning :
        (ScanStep /\ NextLine = "presets = " \o Quoted(v))
        => /\ result' # "panic"
           /\ load_warnings' = Append(load_warnings, ExpectedPresetWarning[v])
           /\ preset_list' = preset_list
           /\ strings' = strings]_vars

\* ------------------------------------------------------------------------
\* C10
\* ------------------------------------------------------------------------

\* valid preset values with the presets they are made of
ExpectedPresetList ==
    ("cpu:0:default,mem:0:tty" :> <<"cpu:0:default,mem:0:tty">>) @@
    ("cpu:0:default,mem:0:tty proc:1:block"
        :> <<"cpu:0:default,mem:0:tty", "proc:1:block">>) @@
    ("cpu:1:braille net:0:default proc:0:tty"
        :> <<"cpu:1:braille", "net:0:default", "proc:0:tty">>)

\* C10: after a valid presets value the preset list is exactly the presets
\* of the value, each once and in input order.
C10_PresetListReplaced ==
    \A v \in DOMAIN ExpectedPresetList :
        (Scanned /\ LastLine = "presets = " \o Quoted(v))
        => preset_list = ExpectedPresetList[v]

\* ------------------------------------------------------------------------
\* C11
\* ------------------------------------------------------------------------

\* valid shown_boxes values with their tokens
ExpectedBoxes ==
    ("cpu mem net proc" :> <<"cpu", "mem", "net", "proc">>) @@
    ("proc cpu" :> <<"proc", "cpu">>) @@
    ("net" :> <<"net">>)

\* shown_boxes values with a token that is no box name
BadBoxValues == {"cpu gpu", "block", "Default", "4:a", "cpu mem nets"}

\* C11: a shown_boxes value made of box names is stored and sets
\* current_boxes to its tokens in input order; a value with any other token
\* is refused with a warning, current_boxes and the stored string staying
\* as they were.
C11_ShownBoxes ==
    [][/\ \A v \in DOMAIN ExpectedBoxes :
            (ScanStep /\ NextLine = "shown_boxes = " \o Quoted(v))
            => /\ current_boxes' = ExpectedBoxes[v]
               /\ strings' = [strings EXCEPT !["shown_boxes"] = v]
               /\ load_warnings' = load_warnings
       /\ \A v \in BadBoxValues :
            (ScanStep /\ NextLine = "shown_boxes = " \o Quoted(v))
            => /\ current_boxes' = current_boxes
               /\ strings' = strings
               /\ load_warnings' =
                    Append(load_warnings,
                           "Invalid box name(s) in shown_boxes!")]_vars

\* a selection was set by one line and kept by a refused one
C11_Witness ==
    /\ Scanned
    /\ idx >= 3
    /\ file.lines[idx - 1] = "shown_boxes = \"proc cpu\""
    /\ LastLine = "shown_boxes = \"cpu gpu\""
    /\ current_boxes = <<"proc", "cpu">>
    /\ strings["shown_boxes"] = "proc cpu"
    /\ load_warnings = <<"Invalid box name(s) in shown_boxes!">>

\* ------------------------------------------------------------------------
\* C12
\* ------------------------------------------------------------------------

\* cpu_core_map values whose every token is a pair of integers
GoodCoreMaps == {"4:0 5:1 6:3", "4:0 5:1", "-1:+2"}

\* cpu_core_map values with a token that is not
BadCoreMaps ==
    {"4:a", "4:0 5:a", "a:0 5:1", "4", "4:0:1", "4:0 5", "block", "cpu gpu",
     "/mnt/media:100 /:20"}

\* C12: a cpu_core_map value is stored when every token is two integers
\* joined by a colon; otherwise the whole value is refused with one warning
\* and the stored value stays as it was.
C12_CpuCoreMap ==
    [][/\ \A v \in GoodCoreMaps :
            (ScanStep /\ NextLine = "cpu_core_map = " \o Quoted(v))
            => /\ strings' = [strings EXCEPT !["cpu_core_map"] = v]
               /\ load_warnings' = load_warnings
       /\ \A v \in BadCoreMaps :
            (ScanStep /\ NextLine = "cpu_core_map = " \o Quoted(v))
            => /\ strings' = strings
               /\ load_warnings' =
                    Append(load_warnings,
                           "Invalid formatting of cpu_core_map!")]_vars

\* a map was stored by one line and kept by a line whose second pair is bad
C12_Witness ==
    /\ Scanned
    /\ idx >= 3
    /\ file.lines[idx - 1] = "cpu_core_map = \"4:0 5:1 6:3\""
    /\ LastLine = "cpu_core_map = \"4:0 5:a\""
    /\ strings["cpu_core_map"] = "4:0 5:1 6:3"
    /\ load_warnings = <<"Invalid formatting of cpu_core_map!">>

\* ------------------------------------------------------------------------
\* C13
\* ------------------------------------------------------------------------

GraphSymbolKeys ==
    {"graph_symbol_cpu", "graph_symbol_mem", "graph_symbol_net",
     "graph_symbol_proc"}

\* C13: for the keys graph_symbol_cpu, _mem, _net and _proc the values
\* default, braille, block and tty are stored, and any other value is
\* refused with a warning, the stored value staying as it was.
C13_GraphSymbolPerBox ==
    [][\A k \in GraphSymbolKeys :
        /\ \A v \in {"default", "braille", "block", "tty"} :
            (ScanStep /\ NextLine = k \o " = " \o Quoted(v))
            => /\ strings' = [strings EXCEPT ![k] = v]
               /\ load_warnings' = load_warnings
        /\ \A v \in {"ascii", "Default", "cpu gpu"} :
            (ScanStep /\ NextLine = k \o " = " \o Quoted(v))
            => /\ strings' = strings
               /\ Len(load_warnings') = Len(load_warnings) + 1]_vars

\* ------------------------------------------------------------------------
\* C14
\* ------------------------------------------------------------------------

FreeStringKeys ==
    {"color_theme", "proc_sorting", "cpu_graph_upper", "cpu_graph_lower",
     "cpu_sensor", "temp_scale", "clock_format", "custom_cpu_name",
     "disks_filter", "net_iface"}

\* C14: a schema string key without a validator of its own takes any
\* value: the live string table holds the value without its quotes and no
\* warning is appended.
C14_FreeStringsAccepted ==
    [][\A k \in FreeStringKeys :
        \A v \in StringValuePool :
            (ScanStep /\ NextLine = k \o " = " \o Quoted(v))
            => /\ strings' = [strings EXCEPT ![k] = v]
               /\ load_warnings' = load_warnings]_vars

\* ------------------------------------------------------------------------
\* C15
\* ------------------------------------------------------------------------

\* the text of a line after its first '=', trimmed
Remainder(line) ==
    Trim(SubSeq(line, IndexOf(line, "=") + 1, Len(line)))

\* C15: the value of an assignment is the whole trimmed text after the
\* first '='.  Stated on the bool keys of the schema: the line is applied
\* when that text is a bool literal and refused with a warning when it is
\* not.
C15_SplitOnce ==
    [][(ScanStep /\ Assignment(NextLine)
            /\ LineKey(NextLine) \in SchemaKeys \cap DOMAIN BoolsNew)
        => IF Remainder(NextLine) \in BoolLiterals
           THEN /\ bools' = [bools EXCEPT
                        ![LineKey(NextLine)] = BoolOf(Remainder(NextLine))]
                /\ load_warnings' = load_warnings
           ELSE /\ bools' = bools
                /\ Len(load_warnings') = Len(load_warnings) + 1]_vars

\* ------------------------------------------------------------------------
\* C16
\* ------------------------------------------------------------------------

\* this step is the call set_bool(key, value)
SetBoolStep(key, value) ==
    /\ ApiReady
    /\ pc' = pc
    /\ ret' = [op |-> "set_bool", key |-> key, b |-> value, s |-> ""]
    /\ ret' # ret

\* C16: set_bool with the gate engaged writes only bools_tmp[key], the
\* live bools table and what get_bool(key) returns staying as they were;
\* with the gate clear it writes only bools[key] and leaves bools_tmp.  The
\* string and int tables, live and pending, are unchanged either way.
C16_SetBoolFrame ==
    [][\A key \in BoolKeys, value \in BOOLEAN :
        SetBoolStep(key, value)
        => /\ locked
              => /\ bools_tmp' = Insert(bools_tmp, key, value)
                 /\ bools' = bools
                 /\ get_bool(key)' = get_bool(key)
           /\ ~locked
              => /\ bools' = Insert(bools, key, value)
                 /\ bools_tmp' = bools_tmp
           /\ UNCHANGED <<strings, strings_tmp, ints, ints_tmp>>]_vars

\* truecolor was loaded as false and then set to true behind the gate
C16_Witness ==
    /\ locked
    /\ ret = [op |-> "set_bool", key |-> "truecolor", b |-> TRUE, s |-> ""]
    /\ bools_tmp = Insert(EmptyMap, "truecolor", TRUE)
    /\ file.exists /\ Len(file.lines) = 2
    /\ file.lines[2] = "truecolor = false"
    /\ bools["truecolor"] = FALSE

\* ------------------------------------------------------------------------
\* C17
\* ------------------------------------------------------------------------

\* C17: write_new starts false, and no step of load, set_bool, a getter or
\* the gate makes it false once it is true.
C17_DirtyMonotone ==
    /\ ~write_new
    /\ [][write_new => write_new']_vars

\* the flag was raised by load and kept by a later set_bool on a key
\* without a schema entry, behind the gate
C17_Witness ==
    /\ write_new
    /\ pre.write_new = FALSE
    /\ ~file.exists
    /\ locked
    /\ ret.op = "set_bool" /\ ret.key = "foo"

\* ------------------------------------------------------------------------
\* C18
\* ------------------------------------------------------------------------

\* C18: no key is in more than one of the live tables strings, bools, ints.
C18_OneLiveTable ==
    /\ DOMAIN strings \cap DOMAIN bools = {}
    /\ DOMAIN strings \cap DOMAIN ints = {}
    /\ DOMAIN bools \cap DOMAIN ints = {}

\* ------------------------------------------------------------------------
\* C19
\* ------------------------------------------------------------------------

\* number of entries of the schema with this key
SchemaEntries(key) ==
    Cardinality({i \in 1..Len(descriptions) : descriptions[i] = key})

\* number of live tables holding this key
LiveTables(key) ==
    Cardinality({t \in {"strings", "bools", "ints"} :
        \/ t = "strings" /\ key \in DOMAIN strings
        \/ t = "bools" /\ key \in DOMAIN bools
        \/ t = "ints" /\ key \in DOMAIN ints})

\* number of tables in which Config::new puts this key
TablesNew(key) ==
    Cardinality({t \in {"strings", "bools", "ints"} :
        \/ t = "strings" /\ key \in DOMAIN StringsNew
        \/ t = "bools" /\ key \in DOMAIN BoolsNew
        \/ t = "ints" /\ key \in DOMAIN IntsNew})

\* C19 as stated: every key of a live table has exactly one schema entry,
\* and every schema key is in exactly one live table.
C19_SchemaMatchesTables ==
    /\ \A key \in DOMAIN strings \cup DOMAIN bools \cup DOMAIN ints :
        SchemaEntries(key) = 1
    /\ \A key \in SchemaKeys : LiveTables(key) = 1

\* C19 amended: every schema key has one schema entry, is put in exactly
\* one table by Config::new and stays in that live table; the string and
\* int tables keep the keys Config::new gave them and the bool table never
\* loses one; no key of a live table has two schema entries.
C19_SchemaKeysKeepTable ==
    /\ \A key \in SchemaKeys :
        /\ SchemaEntries(key) = 1
        /\ TablesNew(key) = 1
        /\ key \in DOMAIN StringsNew => key \in DOMAIN strings
        /\ key \in DOMAIN BoolsNew => key \in DOMAIN bools
        /\ key \in DOMAIN IntsNew => key \in DOMAIN ints
    /\ DOMAIN strings = DOMAIN StringsNew
    /\ DOMAIN ints = DOMAIN IntsNew
    /\ DOMAIN BoolsNew \subseteq DOMAIN bools
    /\ \A key \in DOMAIN strings \cup DOMAIN bools \cup DOMAIN ints :
        SchemaEntries(key) <= 1

\* load has stored a value under a schema key and set_bool has since added
\* a key to the live bool table
C19_Witness ==
    /\ pc = "done" /\ result = "Ok"
    /\ Len(file.lines) = 2 /\ file.lines[2] = "shown_boxes = \"proc cpu\""
    /\ strings["shown_boxes"] = "proc cpu"
    /\ ret.op = "set_bool"
    /\ "foo" \in DOMAIN bools

\* ------------------------------------------------------------------------
\* C20
\* ------------------------------------------------------------------------

\* this step is a call of a getter
GetterStep(op, key) ==
    /\ ApiReady
    /\ pc' = pc
    /\ ret'.op = op
    /\ ret'.key = key
    /\ ret' # ret

\* C20: a getter changes nothing in the store; get_bool returns the live
\* value, or false when the live bool table has no such key; get_boxes
\* returns the live string, or the empty string when the live string table
\* has no such key.  The pending tables are never consulted.
C20_GettersTotal ==
    [][/\ \A key \in BoolKeys :
            GetterStep("get_bool", key)
            => /\ ret'.b = (IF key \in DOMAIN bools THEN bools[key]
                            ELSE FALSE)
               /\ UNCHANGED <<strings, strings_tmp, bools, bools_tmp, ints,
                              ints_tmp, current_boxes, preset_list,
                              write_new, locked, write_lock, load_warnings,
                              result>>
       /\ \A key \in StringKeys :
            GetterStep("get_boxes", key)
            => /\ ret'.s = (IF key \in DOMAIN strings THEN strings[key]
                            ELSE "")
               /\ UNCHANGED <<strings, strings_tmp, bools, bools_tmp, ints,
                              ints_tmp, current_boxes, preset_list,
                              write_new, locked, write_lock, load_warnings,
                              result>>]_vars

\* get_bool answered false for a key that only the pending table holds,
\* with the value true
C20_Witness ==
    /\ ret = [op |-> "get_bool", key |-> "foo", b |-> FALSE, s |-> ""]
    /\ "foo" \notin DOMAIN bools
    /\ "foo" \in DOMAIN bools_tmp
    /\ bools_tmp["foo"] = TRUE

\* ------------------------------------------------------------------------
\* C21
\* ------------------------------------------------------------------------

\* an assignment to a schema key whose value the validator of its table
\* refuses
RejectedLine(line) ==
    /\ Assignment(line)
    /\ LineKey(line) \in SchemaKeys
    /\ \/ /\ LineKey(line) \in DOMAIN BoolsNew
          /\ ~is_bool(LineValue(line))
       \/ /\ LineKey(line) \in DOMAIN IntsNew
          /\ \/ ~is_int(LineValue(line))
             \/ is_valid_int(LineKey(line), LineValue(line)).res # "Ok"
       \/ /\ LineKey(line) \in DOMAIN StringsNew
          /\ is_valid_string(Store, LineKey(line),
                             TrimMatches(LineValue(line), "\"")).res # "Ok"

\* the list keeps the entries it had, in their places
WarningsKept ==
    /\ Len(load_warnings') >= Len(load_warnings)
    /\ SubSeq(load_warnings', 1, Len(load_warnings)) = load_warnings

\* C21: during load the warning list only grows at its end; a scan step
\* appends exactly one warning when the line assigns a refused value to a
\* schema key and none for any other line; a load that returns Ok with a
\* non-empty list has set write_new.
C21_WarningsAppendOnly ==
    [][/\ WarningsKept
       /\ ScanStep
          => IF RejectedLine(NextLine)
             THEN Len(load_warnings') = Len(load_warnings) + 1
             ELSE load_warnings' = load_warnings
       /\ (pc' = "done" /\ result' = "Ok" /\ load_warnings' # <<>>)
          => write_new']_vars

\* ------------------------------------------------------------------------
\* C22
\* ------------------------------------------------------------------------

\* C22: set_bool on a key with a schema entry leaves write_new true,
\* whether the gate is engaged or clear; on a key without a schema entry it
\* leaves write_new as it was.
C22_SetBoolDirty ==
    [][\A key \in BoolKeys, value \in BOOLEAN :
        SetBoolStep(key, value)
        => IF key \in SchemaKeys
           THEN write_new'
           ELSE write_new' = write_new]_vars

\* a clean load left the flag down and a set_bool on truecolor behind the
\* engaged gate raised it
C22_Witness ==
    /\ file.exists /\ Len(file.lines) = 2
    /\ file.lines[1] = "#? Config file for btop-rs v. 1.0.0"
    /\ file.lines[2] = "truecolor = false"
    /\ load_warnings = <<>>
    /\ locked
    /\ ret.op = "set_bool" /\ ret.key = "truecolor"
    /\ DOMAIN bools_tmp = {"truecolor"}
    /\ write_new

\* ------------------------------------------------------------------------
\* C23
\* ------------------------------------------------------------------------

\* this step is a step of load
LoadStep == pc # "done" /\ (pc' # pc \/ idx' # idx)

\* an assignment to a schema key whose value the validator accepts
AcceptedLine(line) ==
    /\ Assignment(line)
    /\ LineKey(line) \in SchemaKeys
    /\ ~RejectedLine(line)

\* C23: load does not look at the gate.  With the gate engaged or clear,
\* a step of load leaves the pending tables and the flags locked and
\* write_lock as they were and adds no key to and removes none from a live
\* table, and an accepted value is written into the live table that holds
\* its key.
C23_LoadIgnoresGate ==
    [][LoadStep
        => /\ UNCHANGED <<strings_tmp, bools_tmp, ints_tmp, locked,
                          write_lock>>
           /\ DOMAIN strings' = DOMAIN strings
           /\ DOMAIN bools' = DOMAIN bools
           /\ DOMAIN ints' = DOMAIN ints
           /\ (ScanStep /\ AcceptedLine(NextLine))
              => LET key == LineKey(NextLine)
                     value == LineValue(NextLine)
                 IN
                 /\ key \in DOMAIN bools
                    => bools' = [bools EXCEPT ![key] = BoolOf(value)]
                 /\ key \in DOMAIN ints
                    => ints' = [ints EXCEPT
                                    ![key] = is_valid_int(key, value).v]
                 /\ key \in DOMAIN strings
                    => strings' = [strings EXCEPT
                                    ![key] = TrimMatches(value, "\"")]]_vars

\* the gate was engaged before load, and load has written truecolor into
\* the live bool table
C23_Witness ==
    /\ pc = "scan"
    /\ locked
    /\ idx = 2
    /\ file.lines[2] = "truecolor = false"
    /\ pre.bools["truecolor"] = TRUE
    /\ bools["truecolor"] = FALSE
    /\ bools_tmp = EmptyMap

\* ------------------------------------------------------------------------
\* C24
\* ------------------------------------------------------------------------

\* C24: clean_quit never blocks for ever on the Global mutex, whether
\* SIGINT arrives while load holds the lock or exit runs the atexit
\* handler under the guard of the first call, and it calls exit at most
\* once.
C24_CleanQuitNeverBlocks ==
    /\ quit.status # "blocked"
    /\ quit.exits <= 1

====
